---- MODULE Spec2Model ----
(***************************************************************************)
(* A model of rnn_gan.py: the training controller (main), one pass over a  *)
(* split (run_epoch), the learning-rate schedule, and the dataflow of one  *)
(* training step (the two optimizer operations fetched by one session.run).*)
(*                                                                         *)
(* Numbers.  The rates of the presets (1.0, 0.9, 0.5) are products of      *)
(* powers of 2, 3 and 5, so a rate is kept exactly as its vector of prime  *)
(* exponents: 0.9 = 2^-1 * 3^2 * 5^-1.  Two rates are equal exactly when   *)
(* their vectors are equal, multiplication adds vectors.  A mean loss is a *)
(* fraction in lowest terms.                                               *)
(***************************************************************************)
EXTENDS Integers, Sequences, FiniteSets, TLC

\* ------------------------------------------------------------------ bounds
MaxBatches == 3
MaxInterval == 2
MaxExitAfter == 1
MaxRestoredStep == 1
MaxLoss == 2
MaxSteps == 2

\* ------------------------------------------------------------ plain values
None == "None"

Max(a, b) == IF a >= b THEN a ELSE b

RECURSIVE Gcd(_, _)
Gcd(a, b) == IF b = 0 THEN a ELSE Gcd(b, a % b)

\* A float that is a mean of natural losses: num/den in lowest terms.
Float(num, den) ==
    LET g == Gcd(num, den)
    IN  [kind |-> "float", num |-> num \div g, den |-> den \div g]

NoneValue == [kind |-> "None"]

\* A rate as a vector of prime exponents; zero is the value 0.0.
Rate(two, three, five) == [zero |-> FALSE, two |-> two, three |-> three, five |-> five]

ZeroRate == [zero |-> TRUE, two |-> 0, three |-> 0, five |-> 0]

One == Rate(0, 0, 0)

Half == Rate(-1, 0, 0)

NineTenths == Rate(-1, 2, -1)

Mul(a, b) ==
    IF a.zero \/ b.zero THEN ZeroRate
    ELSE Rate(a.two + b.two, a.three + b.three, a.five + b.five)

RECURSIVE Pow(_, _)
Pow(x, k) == IF k <= 0 THEN One ELSE Mul(x, Pow(x, k - 1))

\* ----------------------------------------------------------------- presets
SmallConfig ==
    [name |-> "small", learning_rate |-> One, d_lr_factor |-> Half,
     max_epoch |-> 4, max_max_epoch |-> 13, lr_decay |-> NineTenths,
     batch_size |-> 10]

MediumConfig ==
    [name |-> "medium", learning_rate |-> One, d_lr_factor |-> Half,
     max_epoch |-> 6, max_max_epoch |-> 39, lr_decay |-> NineTenths,
     batch_size |-> 20]

LargeConfig ==
    [name |-> "large", learning_rate |-> One, d_lr_factor |-> Half,
     max_epoch |-> 14, max_max_epoch |-> 55, lr_decay |-> NineTenths,
     batch_size |-> 20]

\* The tiny preset defines no d_lr_factor.
TestConfig ==
    [name |-> "test", learning_rate |-> One,
     max_epoch |-> 1, max_max_epoch |-> 1, lr_decay |-> Half,
     batch_size |-> 20]

NoConfig == [name |-> "none"]

ModelNames == {"small", "medium", "large", "test", "huge"}

\* get_config: the preset of a model name, or ValueError.
get_config(model) ==
    CASE model = "small" -> [error |-> "none", config |-> SmallConfig]
      [] model = "medium" -> [error |-> "none", config |-> MediumConfig]
      [] model = "large" -> [error |-> "none", config |-> LargeConfig]
      [] model = "test" -> [error |-> "none", config |-> TestConfig]
      [] OTHER -> [error |-> "ValueError", config |-> NoConfig]

\* The names the module binds at import time.
ImportedNames ==
    {"time", "os", "sys", "np", "tf", "call", "Popen", "MusicDataLoader"}


\* ------------------------------------------------------------------- state
VARIABLES
    FLAGS,          \* the command-line flags of the run
    initial_ckpt,   \* the checkpoint found in traindir at startup
    dataset,        \* the batches the data source can supply
    pc,             \* the controller's position
    error,          \* the exception that ended the run, or "none"
    config,         \* the preset chosen by get_config
    global_step,    \* m.global_step
    lr,             \* m._lr
    i,              \* the epoch index of the for loop
    ckpt,           \* the latest checkpoint in traindir
    saves,          \* the saver.save calls made so far
    metricsLog,     \* the lines of plots/gnuplot-input.txt
    train_loss,     \* (train_g_loss, train_d_loss)
    valid_loss,     \* (valid_g_loss, valid_d_loss)
    test_loss,      \* (test_g_loss, test_d_loss)
    passes,         \* how many run_epoch calls were made per split
    exitRequested,  \* the wall-clock condition of line 394 was true
    elapsed,        \* time.time() - train_start_time when it was true
    callCount,      \* how often the post-exit command was invoked
    callLog,        \* the statuses logged for it
    datasetlabel,   \* run_epoch: the split
    eval_ops,       \* run_epoch: "train" (opt_d, opt_g) or "no_op"
    g_losses,       \* run_epoch: running sum
    d_losses,       \* run_epoch: running sum
    iters,          \* run_epoch: batches processed
    batch,          \* run_epoch: the batch in hand, or None
    supplied,       \* batches the data source returned since the rewind
    fed,            \* the batches fed to session.run in this pass
    updates,        \* optimizer applications in this pass, per network
    result,         \* run_epoch: the value returned
    retpc,          \* where run_epoch returns to
    d_params,       \* the version of the discriminator's parameters
    g_params,       \* the version of the generator's parameters
    d_grads,        \* the parameter versions d_grads was computed from
    g_grads,        \* the parameter versions g_grads was computed from
    order,          \* the optimizer operations applied in this session.run
    pre,            \* the parameter versions when this session.run began
    steps           \* session.run calls completed

vars ==
    <<FLAGS, initial_ckpt, dataset, pc, error, config, global_step, lr, i, ckpt,
      saves, metricsLog, train_loss, valid_loss, test_loss, passes,
      exitRequested, elapsed, callCount, callLog, datasetlabel, eval_ops,
      g_losses, d_losses, iters, batch, supplied, fed, updates, result, retpc,
      d_params, g_params, d_grads, g_grads, order, pre, steps>>

stepVars == <<d_params, g_params, d_grads, g_grads, order, pre, steps>>

inputVars == <<FLAGS, initial_ckpt, dataset>>

mainVars ==
    <<config, global_step, lr, i, ckpt, saves, metricsLog, train_loss,
      valid_loss, test_loss, exitRequested, elapsed, callCount, callLog>>

epochVars ==
    <<datasetlabel, eval_ops, g_losses, d_losses, iters, batch, supplied, fed,
      updates, result>>

Parts == {"train", "validation", "test"}

NoCheckpoint == [exists |-> FALSE]

Checkpoint(step, rate) == [exists |-> TRUE, global_step |-> step, lr |-> rate]

\* A batch is identified with the loss pair the graph evaluates to when fed it.
Batch(g, d) == [g |-> g, d |-> d]

UnitBatch == Batch(1, 1)

\* Data all of whose batches evaluate to the same losses.
UniformDatasets == {{Batch(0, 0)}, {UnitBatch}}

AllBatches == {Batch(g, d) : g \in 0..MaxLoss, d \in 0..MaxLoss}

NoResult == [g |-> NoneValue, d |-> NoneValue]

\* A name that has not been assigned yet.
Unbound == [g |-> [kind |-> "unbound"], d |-> [kind |-> "unbound"]]

Terminal == {"done", "exited", "crashed", "returned"}

\* The elapsed seconds the clock can show at a checkpoint boundary.
TimePoints ==
    {1} \cup {60 * m : m \in 1..MaxExitAfter} \cup {60 * m + 1 : m \in 1..MaxExitAfter}

AllFlags ==
    [datadir : {None, "data"}, traindir : {None, "run"}, model : ModelNames,
     epochs_per_checkpoint : 1..MaxInterval, call_after : {None, "cmd arg"},
     exit_after : 0..MaxExitAfter]

StartCheckpoints ==
    {NoCheckpoint} \cup {Checkpoint(s, One) : s \in 1..MaxRestoredStep}

InitLocals ==
    /\ error = "none"
    /\ config = NoConfig
    /\ global_step = 0
    /\ lr = ZeroRate
    /\ i = 0
    /\ ckpt = initial_ckpt
    /\ saves = <<>>
    /\ metricsLog = <<>>
    /\ train_loss = Unbound
    /\ valid_loss = Unbound
    /\ test_loss = Unbound
    /\ passes = [p \in Parts |-> 0]
    /\ exitRequested = FALSE
    /\ elapsed = 0
    /\ callCount = 0
    /\ callLog = <<>>
    /\ g_losses = 0
    /\ d_losses = 0
    /\ iters = 0
    /\ batch = NoneValue
    /\ supplied = 0
    /\ fed = <<>>
    /\ updates = [d |-> 0, g |-> 0]
    /\ result = Unbound
    /\ d_params = 0
    /\ g_params = 0
    /\ d_grads = NoneValue
    /\ g_grads = NoneValue
    /\ order = <<>>
    /\ pre = [d |-> 0, g |-> 0]
    /\ steps = 0

\* The state when main is entered.
Init ==
    /\ FLAGS \in AllFlags
    /\ initial_ckpt \in StartCheckpoints
    /\ dataset \in UniformDatasets
    /\ pc = "main"
    /\ datasetlabel = "train"
    /\ eval_ops = "no_op"
    /\ retpc = "main"
    /\ InitLocals

Raise(exc) ==
    /\ pc' = "crashed"
    /\ error' = exc


\* ------------------------------------------------------------- the model
\* RNNGAN.__init__: the training graph reads config.d_lr_factor for the
\* discriminator's optimizer; the evaluation graphs return before that.
RNNGAN_init(is_training, cfg) ==
    IF is_training /\ "d_lr_factor" \notin DOMAIN cfg
    THEN "AttributeError"
    ELSE "none"

\* The schedule with the decay starting one epoch early.
DecayedRateEarly(cfg, epoch) ==
    Mul(cfg.learning_rate, Pow(cfg.lr_decay, Max(epoch - cfg.max_epoch + 1, 0)))

\* The schedule of line 371-372: learning_rate * lr_decay ** max(i - max_epoch, 0).
DecayedRate(cfg, epoch) ==
    Mul(cfg.learning_rate, Pow(cfg.lr_decay, Max(epoch - cfg.max_epoch, 0)))

\* apply_gradients given the counter: each run increments it.
ApplyGradientsCounting(step) == step + 1

\* opt_d and opt_g are built by apply_gradients without a global_step
\* argument: running them leaves the counter as it is.
ApplyGradients(step) == step

\* A formatting that accepts None.
FormatLossesLenient(res) == "none"

\* "%.3f" % x: a float formats, None raises TypeError.
FormatLosses(res) ==
    IF res.g.kind = "float" /\ res.d.kind = "float" THEN "none" ELSE "TypeError"

\* A loop that stops one index short.
RangeHasNextShort(epoch, n) == epoch < n - 1

\* range(config.max_max_epoch) has another index.
RangeHasNext(epoch, n) == epoch < n

\* Epochs counted from one.
CheckpointDueFromOne(epoch, every) == (epoch + 1) % every = 0

\* Line 380.
CheckpointDue(epoch, every) == epoch % every = 0

\* The ceiling without the test that it is set.
ExitDueUnguarded(exit_after, seconds) == seconds > exit_after * 60

\* Line 394.
ExitDue(exit_after, seconds) == exit_after > 0 /\ seconds > exit_after * 60

\* An empty pass reported as zero losses.
RunEpochResultZero(gsum, dsum, n) ==
    IF n = 0 THEN [g |-> Float(0, 1), d |-> Float(0, 1)]
    ELSE [g |-> Float(gsum, n), d |-> Float(dsum, n)]

\* The value run_epoch returns (lines 307-310).
RunEpochResult(gsum, dsum, n) ==
    IF n = 0 THEN NoResult ELSE [g |-> Float(gsum, n), d |-> Float(dsum, n)]

\* ------------------------------------------------------------ data source
\* loader.rewind followed by loader.get_batch, and loader.get_batch alone: the
\* next batch of the split, or None at its end.  count is the number of
\* batches supplied since the rewind.
GetBatch(count) ==
    \/ /\ count < MaxBatches
       /\ \E b \in dataset : batch' = b
       /\ supplied' = count + 1
    \/ /\ batch' = NoneValue
       /\ supplied' = count

\* -------------------------------------------------------------- run_epoch
Call(part, ops, back) ==
    /\ pc' = "run_epoch"
    /\ datasetlabel' = part
    /\ eval_ops' = ops
    /\ retpc' = back
    /\ passes' = [passes EXCEPT ![part] = @ + 1]

\* Lines 281-286: the sums start at zero, the split is rewound, the first
\* batch is asked for.
RunEpoch_Begin ==
    /\ pc = "run_epoch"
    /\ g_losses' = 0
    /\ d_losses' = 0
    /\ iters' = 0
    /\ fed' = <<>>
    /\ updates' = [d |-> 0, g |-> 0]
    /\ GetBatch(0)
    /\ pc' = "re_loop"
    /\ UNCHANGED <<inputVars, stepVars, mainVars, error, passes, datasetlabel, eval_ops, result, retpc>>

\* Lines 287-305: one session.run on the batch in hand, then the next batch.
RunEpoch_Step ==
    /\ pc = "re_loop"
    /\ batch # NoneValue
    /\ g_losses' = g_losses + batch.g
    /\ d_losses' = d_losses + batch.d
    /\ iters' = iters + 1
    /\ fed' = Append(fed, batch)
    /\ IF eval_ops = "train"
       THEN /\ updates' = [d |-> updates.d + 1, g |-> updates.g + 1]
            /\ global_step' = ApplyGradients(ApplyGradients(global_step))
       ELSE UNCHANGED <<updates, global_step>>
    /\ GetBatch(supplied)
    /\ UNCHANGED <<inputVars, stepVars, pc, error, config, lr, i, ckpt, saves, metricsLog,
                   train_loss, valid_loss, test_loss, passes, exitRequested,
                   elapsed, callCount, callLog, datasetlabel, eval_ops, result, retpc>>

\* Lines 307-310.
RunEpoch_Return ==
    /\ pc = "re_loop"
    /\ batch = NoneValue
    /\ result' = RunEpochResult(g_losses, d_losses, iters)
    /\ pc' = retpc
    /\ UNCHANGED <<inputVars, stepVars, mainVars, error, passes, datasetlabel, eval_ops,
                   g_losses, d_losses, iters, batch, supplied, fed, updates, retpc>>


\* ------------------------------------------------------------------- main
\* Lines 326-329.
Main_CheckFlags ==
    /\ pc = "main"
    /\ IF FLAGS.datadir = None \/ FLAGS.traindir = None
       THEN Raise("ValueError")
       ELSE pc' = "config" /\ UNCHANGED error
    /\ UNCHANGED <<inputVars, stepVars, mainVars, passes, epochVars, retpc>>

\* Lines 331-340: the data source is opened and the preset is chosen.
Main_GetConfig ==
    /\ pc = "config"
    /\ LET got == get_config(FLAGS.model)
       IN  IF got.error # "none"
           THEN Raise(got.error) /\ UNCHANGED config
           ELSE pc' = "build" /\ config' = got.config /\ UNCHANGED error
    /\ UNCHANGED <<inputVars, stepVars, global_step, lr, i, ckpt, saves, metricsLog,
                   train_loss, valid_loss, test_loss, exitRequested, elapsed,
                   callCount, callLog, passes, epochVars, retpc>>

\* Lines 342-347: the training graph m, then the evaluation graphs.
Main_BuildModels ==
    /\ pc = "build"
    /\ LET made == RNNGAN_init(TRUE, config)
       IN  IF made # "none"
           THEN Raise(made)
           ELSE pc' = "restore" /\ UNCHANGED error
    /\ UNCHANGED <<inputVars, stepVars, mainVars, passes, epochVars, retpc>>

\* Lines 349-368: restore the latest checkpoint, or start fresh.
Main_RestoreOrInit ==
    /\ pc = "restore"
    /\ IF ckpt.exists
       THEN global_step' = ckpt.global_step /\ lr' = ckpt.lr
       ELSE global_step' = 0 /\ lr' = ZeroRate
    /\ i' = 0
    /\ pc' = "epoch"
    /\ UNCHANGED <<inputVars, stepVars, error, config, ckpt, saves, metricsLog, train_loss,
                   valid_loss, test_loss, exitRequested, elapsed, callCount,
                   callLog, passes, epochVars, retpc>>

\* Lines 370-374: the head of the epoch loop and the learning rate.
Main_ForLoop ==
    /\ pc = "epoch"
    /\ IF RangeHasNext(i, config.max_max_epoch)
       THEN /\ lr' = DecayedRate(config, i)
            /\ pc' = "train_call"
       ELSE /\ pc' = "test_call"
            /\ UNCHANGED lr
    /\ UNCHANGED <<inputVars, stepVars, error, config, global_step, i, ckpt, saves,
                   metricsLog, train_loss, valid_loss, test_loss, exitRequested,
                   elapsed, callCount, callLog, passes, epochVars, retpc>>

\* Line 375, the call.
Main_TrainPass ==
    /\ pc = "train_call"
    /\ Call("train", "train", "train_report")
    /\ UNCHANGED <<inputVars, stepVars, mainVars, error, g_losses, d_losses, iters, batch,
                   supplied, fed, updates, result>>

\* Line 375, the assignment, and line 376.
Main_ReportTrain ==
    /\ pc = "train_report"
    /\ train_loss' = result
    /\ LET shown == FormatLosses(result)
       IN  IF shown # "none"
           THEN Raise(shown)
           ELSE pc' = "valid_call" /\ UNCHANGED error
    /\ UNCHANGED <<inputVars, stepVars, config, global_step, lr, i, ckpt, saves, metricsLog,
                   valid_loss, test_loss, exitRequested, elapsed, callCount,
                   callLog, passes, epochVars, retpc>>

\* Line 377, the call.
Main_ValidPass ==
    /\ pc = "valid_call"
    /\ Call("validation", "no_op", "valid_report")
    /\ UNCHANGED <<inputVars, stepVars, mainVars, error, g_losses, d_losses, iters, batch,
                   supplied, fed, updates, result>>

\* Line 377, the assignment, and line 378.
Main_ReportValid ==
    /\ pc = "valid_report"
    /\ valid_loss' = result
    /\ LET shown == FormatLosses(result)
       IN  IF shown # "none"
           THEN Raise(shown)
           ELSE pc' = "checkpoint" /\ UNCHANGED error
    /\ UNCHANGED <<inputVars, stepVars, config, global_step, lr, i, ckpt, saves, metricsLog,
                   train_loss, test_loss, exitRequested, elapsed, callCount,
                   callLog, passes, epochVars, retpc>>

\* Line 380.
Main_CheckpointTest ==
    /\ pc = "checkpoint"
    /\ pc' = IF CheckpointDue(i, FLAGS.epochs_per_checkpoint) THEN "save" ELSE "flush"
    /\ UNCHANGED <<inputVars, stepVars, mainVars, error, passes, epochVars, retpc>>

\* Lines 381-383: saver.save.
Main_Save ==
    /\ pc = "save"
    /\ ckpt' = Checkpoint(global_step, lr)
    /\ saves' = Append(saves, [epoch |-> i, global_step |-> global_step])
    /\ pc' = "metrics"
    /\ UNCHANGED <<inputVars, stepVars, error, config, global_step, lr, i, metricsLog,
                   train_loss, valid_loss, test_loss, exitRequested, elapsed,
                   callCount, callLog, passes, epochVars, retpc>>

\* Lines 384-393: one line of the metrics log, and the plot refresh.
Main_AppendMetrics ==
    /\ pc = "metrics"
    /\ metricsLog' = Append(metricsLog,
           [global_step |-> global_step, lr |-> lr,
            train_g_loss |-> train_loss.g, train_d_loss |-> train_loss.d,
            valid_g_loss |-> valid_loss.g, valid_d_loss |-> valid_loss.d])
    /\ pc' = "exit_check"
    /\ UNCHANGED <<inputVars, stepVars, error, config, global_step, lr, i, ckpt, saves,
                   train_loss, valid_loss, test_loss, exitRequested, elapsed,
                   callCount, callLog, passes, epochVars, retpc>>

\* Line 394: the wall-clock ceiling.
Main_ExitCheck ==
    /\ pc = "exit_check"
    /\ \E seconds \in TimePoints :
          IF ExitDue(FLAGS.exit_after, seconds)
          THEN /\ exitRequested' = TRUE
               /\ elapsed' = seconds
               /\ pc' = "exit_requested"
          ELSE /\ pc' = "flush"
               /\ UNCHANGED <<exitRequested, elapsed>>
    /\ UNCHANGED <<inputVars, stepVars, error, config, global_step, lr, i, ckpt, saves,
                   metricsLog, train_loss, valid_loss, test_loss, callCount,
                   callLog, passes, epochVars, retpc>>

\* Lines 395-400: the announcement names datetime, which the module never
\* imports; were it bound, the command would be called and exit() reached.
Main_ExitRequested ==
    /\ pc = "exit_requested"
    /\ IF "datetime" \notin ImportedNames
       THEN /\ Raise("NameError")
            /\ UNCHANGED <<callCount, callLog>>
       ELSE /\ pc' = "exited"
            /\ UNCHANGED error
            /\ IF FLAGS.call_after # None
               THEN \E res \in 0..1 :
                       /\ callCount' = callCount + 1
                       /\ callLog' = Append(callLog, res)
               ELSE UNCHANGED <<callCount, callLog>>
    /\ UNCHANGED <<inputVars, stepVars, config, global_step, lr, i, ckpt, saves, metricsLog,
                   train_loss, valid_loss, test_loss, exitRequested, elapsed,
                   passes, epochVars, retpc>>

\* Line 401, and the step to the next index.
Main_Flush ==
    /\ pc = "flush"
    /\ i' = i + 1
    /\ pc' = "epoch"
    /\ UNCHANGED <<inputVars, stepVars, error, config, global_step, lr, ckpt, saves,
                   metricsLog, train_loss, valid_loss, test_loss, exitRequested,
                   elapsed, callCount, callLog, passes, epochVars, retpc>>

\* Line 403, the call.
Main_TestPass ==
    /\ pc = "test_call"
    /\ Call("test", "no_op", "test_report")
    /\ UNCHANGED <<inputVars, stepVars, mainVars, error, g_losses, d_losses, iters, batch,
                   supplied, fed, updates, result>>

\* Line 403, the assignment, and line 404.
Main_ReportTest ==
    /\ pc = "test_report"
    /\ test_loss' = result
    /\ LET shown == FormatLosses(result)
       IN  IF shown # "none"
           THEN Raise(shown)
           ELSE pc' = "done" /\ UNCHANGED error
    /\ UNCHANGED <<inputVars, stepVars, config, global_step, lr, i, ckpt, saves, metricsLog,
                   train_loss, valid_loss, exitRequested, elapsed, callCount,
                   callLog, passes, epochVars, retpc>>

Next ==
    \/ Main_CheckFlags
    \/ Main_GetConfig
    \/ Main_BuildModels
    \/ Main_RestoreOrInit
    \/ Main_ForLoop
    \/ Main_TrainPass
    \/ RunEpoch_Begin
    \/ RunEpoch_Step
    \/ RunEpoch_Return
    \/ Main_ReportTrain
    \/ Main_ValidPass
    \/ Main_ReportValid
    \/ Main_CheckpointTest
    \/ Main_Save
    \/ Main_AppendMetrics
    \/ Main_ExitCheck
    \/ Main_ExitRequested
    \/ Main_Flush
    \/ Main_TestPass
    \/ Main_ReportTest

Spec == Init /\ [][Next]_vars


\* ------------------------------------------------- run_epoch on its own
\* One call of run_epoch, for any split and either pair of operations, on
\* data whose batches differ.
DefaultFlags ==
    [datadir |-> "data", traindir |-> "run", model |-> "small",
     epochs_per_checkpoint |-> 1, call_after |-> None, exit_after |-> 0]

InitEpoch ==
    /\ FLAGS = DefaultFlags
    /\ initial_ckpt = NoCheckpoint
    /\ dataset = AllBatches
    /\ pc = "run_epoch"
    /\ datasetlabel \in Parts
    /\ eval_ops \in {"train", "no_op"}
    /\ retpc = "returned"
    /\ InitLocals

NextEpoch ==
    \/ RunEpoch_Begin
    \/ RunEpoch_Step
    \/ RunEpoch_Return

SpecEpoch == InitEpoch /\ [][NextEpoch]_vars

\* ------------------------------------------- one training step's dataflow
\* session.run(fetches) of line 296 with eval_op1 = opt_d, eval_op2 = opt_g
\* runs the operations the fetches depend on.  The graph orders an operation
\* only after the operations whose outputs it consumes: each apply_gradients
\* after its own gradients, the gradients after the forward pass.  Nothing
\* orders opt_d against the generator's gradients or against opt_g, and a
\* gradient operation reads the parameters as they are when it runs.
stepRest ==
    <<inputVars, mainVars, error, passes, datasetlabel, eval_ops, g_losses,
      d_losses, iters, supplied, fed, updates, result, retpc>>

\* Line 296: session.run is entered with a batch.
Step_Run ==
    /\ pc = "step"
    /\ steps < MaxSteps
    /\ \E b \in dataset : batch' = b
    /\ pre' = [d |-> d_params, g |-> g_params]
    /\ d_grads' = NoneValue
    /\ g_grads' = NoneValue
    /\ order' = <<>>
    /\ pc' = "forward"
    /\ UNCHANGED <<stepRest, d_params, g_params, steps>>

\* Lines 93-139: the forward pass and the two losses.
Step_Forward ==
    /\ pc = "forward"
    /\ pc' = "backward"
    /\ UNCHANGED <<stepRest, batch, stepVars>>

\* Lines 151-152: tf.gradients(d_loss, d_params), clipped.
Step_DGrads ==
    /\ pc = "backward"
    /\ d_grads = NoneValue
    /\ d_grads' = [d_seen |-> d_params, g_seen |-> g_params]
    /\ UNCHANGED <<stepRest, pc, batch, d_params, g_params, g_grads, order, pre, steps>>

\* Lines 155-156: tf.gradients(g_loss, g_params), clipped; g_loss is a
\* function of the discriminator's parameters too.
Step_GGrads ==
    /\ pc = "backward"
    /\ g_grads = NoneValue
    /\ g_grads' = [d_seen |-> d_params, g_seen |-> g_params]
    /\ UNCHANGED <<stepRest, pc, batch, d_params, g_params, d_grads, order, pre, steps>>

\* Line 153: opt_d.
Step_ApplyD ==
    /\ pc = "backward"
    /\ d_grads # NoneValue
    /\ \A k \in 1..Len(order) : order[k] # "D"
    /\ d_params' = d_params + 1
    /\ order' = Append(order, "D")
    /\ UNCHANGED <<stepRest, pc, batch, g_params, d_grads, g_grads, pre, steps>>

\* Line 157: opt_g.
Step_ApplyG ==
    /\ pc = "backward"
    /\ g_grads # NoneValue
    /\ \A k \in 1..Len(order) : order[k] # "G"
    /\ g_params' = g_params + 1
    /\ order' = Append(order, "G")
    /\ UNCHANGED <<stepRest, pc, batch, d_params, d_grads, g_grads, pre, steps>>

\* Line 296: every fetch is available, session.run returns.
Step_Return ==
    /\ pc = "backward"
    /\ Len(order) = 2
    /\ steps' = steps + 1
    /\ pc' = "step"
    /\ UNCHANGED <<stepRest, batch, d_params, g_params, d_grads, g_grads, order, pre>>

InitStep ==
    /\ FLAGS = DefaultFlags
    /\ initial_ckpt = NoCheckpoint
    /\ dataset = AllBatches
    /\ pc = "step"
    /\ datasetlabel = "train"
    /\ eval_ops = "train"
    /\ retpc = "returned"
    /\ InitLocals

NextStep ==
    \/ Step_Run
    \/ Step_Forward
    \/ Step_DGrads
    \/ Step_GGrads
    \/ Step_ApplyD
    \/ Step_ApplyG
    \/ Step_Return

SpecStep == InitStep /\ [][NextStep]_vars


\* ------------------------------------------------------------- properties
Every == FLAGS.epochs_per_checkpoint

\* The checkpoint events due in the epochs 0 .. n-1.
Due(n) == (n + Every - 1) \div Every

RECURSIVE SumG(_)
SumG(seq) == IF seq = <<>> THEN 0 ELSE Head(seq).g + SumG(Tail(seq))

RECURSIVE SumD(_)
SumD(seq) == IF seq = <<>> THEN 0 ELSE Head(seq).d + SumD(Tail(seq))

IsFloat(x) == x.kind = "float"

\* The counter's value after initialization.
InitialStep == IF initial_ckpt.exists THEN initial_ckpt.global_step ELSE 0

\* C1 as stated: with the ceiling at 0 minutes, once the checkpoint step of
\* epoch 0 has written its metrics line and made the elapsed-time check, the
\* controller is in ExitRequested and no later epoch is run.
C1_ExitAtFirstBoundary ==
    (FLAGS.exit_after = 0 /\ Len(metricsLog) >= 1 /\ pc # "exit_check")
        => (exitRequested /\ i = 0)

\* C1 as amended: with the ceiling at 0 minutes the elapsed-time check is
\* off, the controller never enters ExitRequested; it enters ExitRequested
\* only with a ceiling above 0 that the elapsed time exceeds, in an epoch
\* that has a checkpoint step.
C1_ZeroCeilingNeverExits ==
    /\ FLAGS.exit_after = 0 => (~exitRequested /\ pc # "exit_requested")
    /\ exitRequested =>
          /\ FLAGS.exit_after > 0
          /\ elapsed > FLAGS.exit_after * 60
          /\ i % Every = 0
          /\ Len(metricsLog) = Due(i + 1)

\* With the ceiling at 0, a later epoch runs after the first boundary.
C1_Witness ==
    /\ FLAGS.exit_after = 0
    /\ Len(metricsLog) >= 1
    /\ i = 1
    /\ pc = "train_report"

\* C2: a run of the test preset (flags valid, no split empty) gets through
\* model construction, completes its one epoch, and has then written one
\* checkpoint and one metrics line.
C2_TestPresetCompletes ==
    (FLAGS.model = "test" /\ pc \in Terminal /\ error \notin {"ValueError", "TypeError"})
        => /\ pc = "done"
           /\ passes["train"] = 1
           /\ passes["validation"] = 1
           /\ Len(saves) = 1
           /\ Len(metricsLog) = 1

C4_RunEpoch ==
    /\ iters = Len(fed)
    /\ updates = IF eval_ops = "train" THEN [d |-> iters, g |-> iters] ELSE [d |-> 0, g |-> 0]
    /\ pc = "returned" =>
          /\ iters = supplied
          /\ (result = NoResult) <=> (supplied = 0)
          /\ supplied >= 1 =>
                /\ IsFloat(result.g) /\ IsFloat(result.d)
                /\ result.g.num * supplied = result.g.den * SumG(fed)
                /\ result.d.num * supplied = result.d.den * SumD(fed)
                /\ result.g.den >= 1 /\ result.d.den >= 1

C4_Witness ==
    /\ pc = "returned"
    /\ supplied = 0
    /\ result = NoResult
    /\ result # [g |-> Float(0, 1), d |-> Float(0, 1)]

\* C5: the k-th checkpoint event is in epoch (k-1)*N, every epoch index that
\* is a multiple of N and whose checkpoint step was reached has one, and the
\* metrics log has one line per checkpoint event (the line of the event in
\* progress follows its save).
C5_CheckpointEvents ==
    /\ \A k \in 1..Len(saves) : saves[k].epoch = (k - 1) * Every
    /\ Len(saves) =
          IF pc \in {"metrics", "exit_check", "exit_requested", "flush"} \/ exitRequested
          THEN Due(i + 1) ELSE Due(i)
    /\ Len(metricsLog) = Len(saves) - (IF pc = "metrics" THEN 1 ELSE 0)

C5_Witness ==
    /\ Every = 2
    /\ i = 5
    /\ pc = "flush"
    /\ Len(saves) = 3
    /\ Len(metricsLog) = 3

\* C6: a run that went through ExitRequested with a post-exit command
\* configured has, when it ends, invoked the command once, logged its
\* status, and ended through exit() with no error.
C6_PostExitCommand ==
    (exitRequested /\ FLAGS.call_after # None /\ pc \in Terminal)
        => /\ callCount = 1
           /\ Len(callLog) = 1
           /\ pc = "exited"
           /\ error = "none"

\* C7: the test pass is run at most once, only when every epoch has run its
\* train and validation pass and the loop has ended, never after
\* ExitRequested, and a run that ends normally has run it.
C7_TestPass ==
    /\ passes["test"] <= 1
    /\ passes["test"] = 1 =>
          /\ ~exitRequested
          /\ i = config.max_max_epoch
          /\ passes["train"] = config.max_max_epoch
          /\ passes["validation"] = config.max_max_epoch
          /\ IsFloat(valid_loss.g)
    /\ exitRequested => passes["test"] = 0
    /\ pc = "done" => (passes["test"] = 1 /\ IsFloat(test_loss.g))

C7_Witness ==
    /\ pc = "done"
    /\ passes["test"] = 1
    /\ passes["train"] = 13

\* C8: within one session.run the discriminator's update is applied before
\* the generator's, and both gradients are computed from the parameters as
\* they were when the step began.
C8_StepOrder ==
    /\ order \in {<<>>, <<"D">>, <<"D", "G">>}
    /\ d_grads # NoneValue => (d_grads.d_seen = pre.d /\ d_grads.g_seen = pre.g)
    /\ g_grads # NoneValue => (g_grads.d_seen = pre.d /\ g_grads.g_seen = pre.g)

\* C9: from initialization on the global step keeps its initial value, and
\* every checkpoint and metrics line records that value.
C9_GlobalStepConstant ==
    /\ (passes["train"] >= 1 \/ pc \in {"epoch", "train_call"}) => global_step = InitialStep
    /\ \A k \in 1..Len(saves) : saves[k].global_step = InitialStep
    /\ \A k \in 1..Len(metricsLog) : metricsLog[k].global_step = InitialStep
    /\ ckpt.exists => ckpt.global_step = InitialStep

C9_Witness ==
    /\ initial_ckpt.exists
    /\ passes["train"] >= 2
    /\ updates.d >= 1
    /\ Len(metricsLog) >= 2
    /\ metricsLog[2].global_step = initial_ckpt.global_step

\* C10: a 'no data' result of the train or validation pass ends the run with
\* a TypeError at the report, before the epoch's checkpoint step: no save and
\* no metrics line for that epoch, no later pass, no test pass.
C10_NoDataAborts ==
    /\ train_loss = NoResult =>
          /\ pc = "crashed" /\ error = "TypeError"
          /\ passes = [p \in Parts |-> IF p = "train" THEN i + 1 ELSE IF p = "validation" THEN i ELSE 0]
          /\ Len(saves) = Due(i) /\ Len(metricsLog) = Due(i)
    /\ valid_loss = NoResult =>
          /\ pc = "crashed" /\ error = "TypeError"
          /\ passes = [p \in Parts |-> IF p = "test" THEN 0 ELSE i + 1]
          /\ Len(saves) = Due(i) /\ Len(metricsLog) = Due(i)

C10_Witness ==
    /\ valid_loss = NoResult
    /\ IsFloat(train_loss.g)
    /\ i = 2
    /\ pc = "crashed"
    /\ Len(metricsLog) = Due(2)

====
